---- MODULE Spec2Model ----
(***************************************************************************)
(* Model of app_vc.py: the Seed-VC demo front-end.                         *)
(*                                                                         *)
(* The process parses its flags, runs load_model() (device selection,      *)
(* settings file, model fetch, validation, to/half/eval), builds the UI,   *)
(* resolves the listen port from PORT and launches the server; every       *)
(* submitted request invokes voice_conversion().  External collaborators   *)
(* (file system, yaml parser, model fetcher, the model object's methods,   *)
(* the UI framework's launch) are nondeterministic choices over the        *)
(* outcomes they can produce: a returned value or a raised exception.      *)
(***************************************************************************)
EXTENDS Integers, Sequences, FiniteSets, TLC

VARIABLES
    pc,          \* position of the main script / load_model
    args,        \* parsed command-line flags (module level, lines 19-24)
    PORT,        \* the PORT environment variable of the process
    model,       \* global model handle (line 27)
    config,      \* global settings object (line 28)
    device,      \* global device selector (line 29)
    probed,      \* paths given to os.path.exists
    opened,      \* paths given to open()
    cfgOutcome,  \* what the settings step met on disk
    hfCalls,     \* calls of load_custom_model_from_hf, in order
    loadFailed,  \* load_model's except clause has run
    demo,        \* create_demo() has returned the Blocks object
    port,        \* local variable port of the main script
    launchArgs,  \* arguments demo.launch was invoked with
    exitCode,    \* argument of sys.exit
    request,     \* the last inputs handed to voice_conversion
    result       \* what voice_conversion returned for them

vars == <<pc, args, PORT, model, config, device, probed, opened, cfgOutcome,
          hfCalls, loadFailed, demo, port, launchArgs, exitCode, request, result>>

----------------------------------------------------------------------------
\* Bounds of the model.

\* Longest PORT string enumerated.
MaxPortLen == 2

\* Characters PORT strings are built from: two digits and a non-digit.
PortChars == {"0", "8", "x"}

----------------------------------------------------------------------------
\* Program constants.

DefaultArtifact == "Plachta/Seed-VC"
DefaultConfigPath == "./configs/config.yaml"
DefaultPort == 8080
ServerName == "0.0.0.0"
PitchMin == -12
PitchMax == 12
ExitStatus == 1
MsgNotLoaded == "Model not loaded. Please restart the application."
MsgNotImplemented == "Voice conversion not yet implemented"

----------------------------------------------------------------------------
\* Values.

\* Python's None, for the string-valued and for the object-valued places.
None == "<None>"
NoneObj == [kind |-> "none"]

\* A str returned by the fetcher in place of a model.
StrObj == [kind |-> "str"]

\* An object returned by the fetcher: has_to is hasattr(obj, 'to').
FreshObj(has_to) ==
    [kind |-> "obj", has_to |-> has_to, device |-> None,
     half |-> FALSE, eval |-> FALSE]

\* Everything load_custom_model_from_hf can return.
FetchReturns == {NoneObj, StrObj, FreshObj(FALSE), FreshObj(TRUE)}

\* The settings object after yaml.safe_load, and after recursive_munch.
NoConfig == [kind |-> "none"]
RawConfig(path) == [kind |-> "dict", path |-> path]
MunchedConfig(path) == [kind |-> "munch", path |-> path]

NoLaunch == [invoked |-> FALSE]
NoExit == [called |-> FALSE]
NoRequest == [given |-> FALSE]
NoResult == [returned |-> FALSE]

CheckpointValues == {"", "ckpt.pth"}
ConfigValues == {"", "cfg.yaml"}

ArgsValues ==
    [share : BOOLEAN, checkpoint : CheckpointValues,
     config : ConfigValues, fp16 : BOOLEAN]

RECURSIVE SeqsUpTo(_, _)
SeqsUpTo(S, n) ==
    IF n = 0 THEN {<<>>}
    ELSE LET shorter == SeqsUpTo(S, n - 1)
         IN  shorter \cup {Append(s, c) : s \in shorter, c \in S}

PortValues ==
    {[present |-> FALSE]} \cup
    {[present |-> TRUE, value |-> s] : s \in SeqsUpTo(PortChars, MaxPortLen)}

SourceValues == {None, "src.wav", "other.wav"}
TargetValues == {"", "spk1"}
PitchValues == {PitchMin, 0, PitchMax}

----------------------------------------------------------------------------
\* Pure functions.

DigitValue(c) ==
    CASE c = "0" -> 0 [] c = "1" -> 1 [] c = "2" -> 2 [] c = "3" -> 3
      [] c = "4" -> 4 [] c = "5" -> 5 [] c = "6" -> 6 [] c = "7" -> 7
      [] c = "8" -> 8 [] c = "9" -> 9 [] OTHER -> -1

IsDigit(c) == DigitValue(c) >= 0

RECURSIVE DigitsValue(_)
DigitsValue(s) ==
    IF s = <<>> THEN 0
    ELSE 10 * DigitsValue(SubSeq(s, 1, Len(s) - 1)) + DigitValue(s[Len(s)])

\* int(s) for a str s: ValueError unless s is a non-empty run of digits.
ParseInt(s) ==
    IF s # <<>> /\ \A i \in 1..Len(s) : IsDigit(s[i])
    THEN [ok |-> TRUE, value |-> DigitsValue(s)]
    ELSE [ok |-> FALSE]

\* int(os.environ.get("PORT", 8080))
ResolvePortValue(env) ==
    IF env.present THEN ParseInt(env.value)
    ELSE [ok |-> TRUE, value |-> DefaultPort]

\* config_path of load_model
ConfigPath(a) == IF a.config # "" THEN a.config ELSE DefaultConfigPath

\* ModelName with the test on args.checkpoint inverted.
ModelName_Inverted(a) ==
    IF a.checkpoint = "" THEN a.checkpoint ELSE DefaultArtifact

\* first argument of load_custom_model_from_hf in load_model
ModelName(a) == IF a.checkpoint # "" THEN a.checkpoint ELSE DefaultArtifact

\* the three validation tests of load_model, in order
ValidModel(m) == m # NoneObj /\ m.kind # "str" /\ m.has_to

\* args.fp16 and device.type == "cuda"
WantsHalf(a, d) == a.fp16 /\ d = "cuda"

\* voice_conversion without the test of the model handle.
voice_conversion_NoModelCheck(m, source_audio, target_voice, pitch_shift) ==
    <<source_audio, MsgNotImplemented>>

\* voice_conversion returning no audio from the placeholder branch.
voice_conversion_DropsAudio(m, source_audio, target_voice, pitch_shift) ==
    IF m = NoneObj
    THEN <<None, MsgNotLoaded>>
    ELSE <<None, MsgNotImplemented>>

\* voice_conversion(source_audio, target_voice, pitch_shift)
voice_conversion(m, source_audio, target_voice, pitch_shift) ==
    IF m = NoneObj
    THEN <<None, MsgNotLoaded>>
    ELSE <<source_audio, MsgNotImplemented>>

----------------------------------------------------------------------------
\* The process.

Init ==
    /\ pc = "main"
    /\ args \in ArgsValues
    /\ PORT \in PortValues
    /\ model = NoneObj
    /\ config = NoConfig
    /\ device = None
    /\ probed = {}
    /\ opened = {}
    /\ cfgOutcome = None
    /\ hfCalls = <<>>
    /\ loadFailed = FALSE
    /\ demo = FALSE
    /\ port = None
    /\ launchArgs = NoLaunch
    /\ exitCode = NoExit
    /\ request = NoRequest
    /\ result = NoResult

\* load_model, line 35: the device is chosen.
SelectDevice ==
    /\ pc = "main"
    /\ \E d \in {"cuda", "cpu"} : device' = d
    /\ pc' = "load_config"
    /\ UNCHANGED <<args, PORT, model, config, probed, opened, cfgOutcome,
                   hfCalls, loadFailed, demo, port, launchArgs, exitCode,
                   request, result>>

\* load_model, lines 40-53: the settings file is probed and, if there, read.
LoadConfig ==
    /\ pc = "load_config"
    /\ LET path == ConfigPath(args) IN
       \E found \in {"missing", "valid", "unreadable", "bad_yaml", "bad_munch"} :
          /\ probed' = probed \cup {path}
          /\ cfgOutcome' = found
          /\ opened' = IF found = "missing" THEN opened ELSE opened \cup {path}
          /\ config' = CASE found = "missing" -> NoConfig
                         [] found = "valid" -> MunchedConfig(path)
                         [] found = "bad_munch" -> RawConfig(path)
                         [] OTHER -> config
          /\ pc' = IF found \in {"missing", "valid"}
                   THEN "load_model" ELSE "load_failed"
    /\ UNCHANGED <<args, PORT, model, device, hfCalls, loadFailed, demo, port,
                   launchArgs, exitCode, request, result>>

\* load_model, lines 56-65: the fetcher is called, and returns or raises.
FetchModel ==
    /\ pc = "load_model"
    /\ hfCalls' = Append(hfCalls,
                         [name |-> ModelName(args), device |-> device,
                          fp16 |-> args.fp16])
    /\ \/ /\ \E m \in FetchReturns : model' = m
          /\ pc' = "validate"
       \/ /\ model' = model
          /\ pc' = "load_failed"
    /\ UNCHANGED <<args, PORT, config, device, probed, opened, cfgOutcome,
                   loadFailed, demo, port, launchArgs, exitCode, request,
                   result>>

\* load_model, lines 68-75 and 81-82: the fetched value is validated.
Validate ==
    /\ pc = "validate"
    /\ pc' = IF ValidModel(model) THEN "to" ELSE "load_failed"
    /\ UNCHANGED <<args, PORT, model, config, device, probed, opened,
                   cfgOutcome, hfCalls, loadFailed, demo, port, launchArgs,
                   exitCode, request, result>>

\* load_model, line 76: model = model.to(device); to returns or raises.
ToDevice ==
    /\ pc = "to"
    /\ \/ /\ \E r \in {[model EXCEPT !.device = device], NoneObj} : model' = r
          /\ pc' = IF WantsHalf(args, device) THEN "half" ELSE "eval"
       \/ /\ model' = model
          /\ pc' = "load_failed"
    /\ UNCHANGED <<args, PORT, config, device, probed, opened, cfgOutcome,
                   hfCalls, loadFailed, demo, port, launchArgs, exitCode,
                   request, result>>

\* load_model, line 78: model = model.half(); None has no half.
Half ==
    /\ pc = "half"
    /\ \/ /\ model # NoneObj
          /\ \E r \in {[model EXCEPT !.half = TRUE], NoneObj} : model' = r
          /\ pc' = "eval"
       \/ /\ model' = model
          /\ pc' = "load_failed"
    /\ UNCHANGED <<args, PORT, config, device, probed, opened, cfgOutcome,
                   hfCalls, loadFailed, demo, port, launchArgs, exitCode,
                   request, result>>

\* load_model, lines 79-80: model.eval(); None has no eval.
Eval ==
    /\ pc = "eval"
    /\ \/ /\ model # NoneObj
          /\ model' = [model EXCEPT !.eval = TRUE]
          /\ pc' = "loaded"
       \/ /\ model' = model
          /\ pc' = "load_failed"
    /\ UNCHANGED <<args, PORT, config, device, probed, opened, cfgOutcome,
                   hfCalls, loadFailed, demo, port, launchArgs, exitCode,
                   request, result>>

\* LoadModelExcept without the raise: load_model returns and main goes on.
LoadModelExcept_Swallows ==
    /\ pc = "load_failed"
    /\ loadFailed' = TRUE
    /\ pc' = "loaded"
    /\ UNCHANGED <<args, PORT, model, config, device, probed, opened,
                   cfgOutcome, hfCalls, demo, port, launchArgs, exitCode,
                   request, result>>

\* load_model, lines 84-89: the except clause logs and re-raises.
LoadModelExcept ==
    /\ pc = "load_failed"
    /\ loadFailed' = TRUE
    /\ pc' = "main_except"
    /\ UNCHANGED <<args, PORT, model, config, device, probed, opened,
                   cfgOutcome, hfCalls, demo, port, launchArgs, exitCode,
                   request, result>>

\* main, line 150: demo = create_demo(), the callback bound to the button.
CreateDemo ==
    /\ pc = "loaded"
    /\ demo' = TRUE
    /\ pc' = "port"
    /\ UNCHANGED <<args, PORT, model, config, device, probed, opened,
                   cfgOutcome, hfCalls, loadFailed, port, launchArgs, exitCode,
                   request, result>>

\* main, line 153: port = int(os.environ.get("PORT", 8080))
ResolvePort ==
    /\ pc = "port"
    /\ LET r == ResolvePortValue(PORT) IN
       IF r.ok
       THEN port' = r.value /\ pc' = "launch"
       ELSE port' = port /\ pc' = "main_except"
    /\ UNCHANGED <<args, PORT, model, config, device, probed, opened,
                   cfgOutcome, hfCalls, loadFailed, demo, launchArgs, exitCode,
                   request, result>>

\* main, lines 156-160: demo.launch serves, or raises (the port is taken).
Launch ==
    /\ pc = "launch"
    /\ launchArgs' = [invoked |-> TRUE, server_name |-> ServerName,
                      server_port |-> port, share |-> args.share]
    /\ \E started \in BOOLEAN :
          pc' = IF started THEN "serving" ELSE "main_except"
    /\ UNCHANGED <<args, PORT, model, config, device, probed, opened,
                   cfgOutcome, hfCalls, loadFailed, demo, port, exitCode,
                   request, result>>

\* main, lines 161-165: the except clause logs and exits with status 1.
MainExcept ==
    /\ pc = "main_except"
    /\ exitCode' = [called |-> TRUE, code |-> ExitStatus]
    /\ pc' = "exited"
    /\ UNCHANGED <<args, PORT, model, config, device, probed, opened,
                   cfgOutcome, hfCalls, loadFailed, demo, port, launchArgs,
                   request, result>>

\* lines 129-133: a click on Convert calls voice_conversion with the widgets'
\* values and shows what it returns.
Convert ==
    /\ pc = "serving"
    /\ \E s \in SourceValues, t \in TargetValues, p \in PitchValues :
          /\ request' = [given |-> TRUE, source_audio |-> s,
                         target_voice |-> t, pitch_shift |-> p]
          /\ LET r == voice_conversion(model, s, t, p) IN
             result' = [returned |-> TRUE, audio |-> r[1], status |-> r[2]]
    /\ UNCHANGED <<pc, args, PORT, model, config, device, probed, opened,
                   cfgOutcome, hfCalls, loadFailed, demo, port, launchArgs,
                   exitCode>>

Next ==
    \/ SelectDevice
    \/ LoadConfig
    \/ FetchModel
    \/ Validate
    \/ ToDevice
    \/ Half
    \/ Eval
    \/ LoadModelExcept
    \/ CreateDemo
    \/ ResolvePort
    \/ Launch
    \/ MainExcept
    \/ Convert

Spec == Init /\ [][Next]_vars

----------------------------------------------------------------------------
\* voice_conversion as a function of the module's state: called directly,
\* whatever the model handle holds.

ModelValues ==
    FetchReturns \cup
    {[kind |-> "obj", has_to |-> TRUE, device |-> d, half |-> h, eval |-> TRUE] :
        d \in {"cuda", "cpu"}, h \in BOOLEAN}

InitCall ==
    /\ pc = "direct"
    /\ args \in ArgsValues
    /\ PORT = [present |-> FALSE]
    /\ model \in ModelValues
    /\ config = NoConfig
    /\ device = None
    /\ probed = {}
    /\ opened = {}
    /\ cfgOutcome = None
    /\ hfCalls = <<>>
    /\ loadFailed = FALSE
    /\ demo = FALSE
    /\ port = None
    /\ launchArgs = NoLaunch
    /\ exitCode = NoExit
    /\ request = NoRequest
    /\ result = NoResult

DirectCall ==
    /\ pc = "direct"
    /\ \E s \in SourceValues, t \in TargetValues, p \in PitchValues :
          /\ request' = [given |-> TRUE, source_audio |-> s,
                         target_voice |-> t, pitch_shift |-> p]
          /\ LET r == voice_conversion(model, s, t, p) IN
             result' = [returned |-> TRUE, audio |-> r[1], status |-> r[2]]
    /\ UNCHANGED <<pc, args, PORT, model, config, device, probed, opened,
                   cfgOutcome, hfCalls, loadFailed, demo, port, launchArgs,
                   exitCode>>

NextCall == DirectCall

SpecCall == InitCall /\ [][NextCall]_vars

----------------------------------------------------------------------------
\* Properties.

BothEmpty == args.checkpoint = "" /\ args.config = ""
BothGiven == args.checkpoint # "" /\ args.config # ""

\* The main script has ended or is serving.
Settled == pc \in {"serving", "exited"}

\* The names load_custom_model_from_hf was called with, in order.
FetchedNames == [i \in 1..Len(hfCalls) |-> hfCalls[i].name]

\* C1 (as claimed): once load_model has failed, the process does not exit,
\* and when it settles the demo has been created and demo.launch invoked.
C1_FailedBootstrapStillServes ==
    loadFailed =>
        /\ exitCode = NoExit
        /\ Settled => (demo /\ launchArgs.invoked /\ pc = "serving")

\* C2 (as claimed): whenever load_model ends in failure (its except clause
\* is reached), the global model handle is None.
C2_FailureLeavesHandleAbsent ==
    (pc = "load_failed" \/ loadFailed) => model = NoneObj

C4_LocalOnlyWhenBothGiven ==
    BothGiven =>
        /\ probed \subseteq {args.config}
        /\ hfCalls = <<>>

\* C5: voice_conversion called while the model handle is None returns a None
\* audio result and the non-empty "Model not loaded" status, whatever the
\* source audio, target voice and pitch shift.
C5_AbsentModelReportsNotLoaded ==
    (result.returned /\ model = NoneObj) =>
        /\ result.audio = None
        /\ result.status = MsgNotLoaded
        /\ result.status # ""

\* C5 witness: the callback has returned with the handle None and a source
\* audio given.
C5_Witness ==
    /\ result.returned
    /\ model = NoneObj
    /\ request.source_audio = "src.wav"
    /\ request.pitch_shift = PitchMax

\* C6 (as claimed): voice_conversion called with a model handle but a None
\* source audio returns a None result and a status that reports the missing
\* input, other than the placeholder status.
C6_MissingSourceReported ==
    (result.returned /\ model # NoneObj /\ request.source_audio = None) =>
        /\ result.audio = None
        /\ result.status \notin {"", MsgNotImplemented, MsgNotLoaded}

\* C7: voice_conversion called with a model handle and a source audio returns
\* the source audio unchanged with the "not yet implemented" status, for every
\* target voice and pitch shift.
C7_PlaceholderOutcome ==
    (result.returned /\ model # NoneObj /\ request.source_audio # None) =>
        /\ result.audio = request.source_audio
        /\ result.status = MsgNotImplemented

\* C7 witness: the callback has returned for a present handle, a source audio
\* and a non-default pitch shift and target.
C7_Witness ==
    /\ result.returned
    /\ model # NoneObj
    /\ request.source_audio = "other.wav"
    /\ request.target_voice = "spk1"
    /\ request.pitch_shift = PitchMin

\* The port C8 names: PORT's number when present and valid, else 8080.
ClaimedPort ==
    IF PORT.present /\ ParseInt(PORT.value).ok
    THEN ParseInt(PORT.value).value
    ELSE DefaultPort

\* C8 (as claimed): after a successful bootstrap, once the port has been
\* resolved the server is launched on 0.0.0.0 and on PORT's number when PORT
\* is present and valid, on 8080 when it is absent or not a valid number.
C8_ListensOnPortOr8080 ==
    (demo /\ pc \notin {"port", "launch"}) =>
        /\ launchArgs.invoked
        /\ launchArgs.server_name = ServerName
        /\ launchArgs.server_port = ClaimedPort

\* C9 (as claimed): a settings file that is missing or fails to parse leaves
\* the settings object None, and bootstrap does not abort before it has
\* attempted the model load.
C9_SettingsErrorsNonFatal ==
    (cfgOutcome \in {"missing", "bad_yaml", "bad_munch"}) =>
        /\ config = NoConfig
        /\ (pc \in {"load_failed", "main_except", "exited"}) => hfCalls # <<>>

\* C10: demo.launch is reached only after load_model has returned without
\* failing; while the server serves, the model handle is an object moved to
\* the selected device and in evaluation mode, and no served request gets the
\* "Model not loaded" status.
C10_ServingImpliesModelLoaded ==
    (pc \in {"launch", "serving"} \/ launchArgs.invoked) =>
        /\ ~loadFailed
        /\ model # NoneObj
        /\ model.kind = "obj"
        /\ model.device = device
        /\ model.eval
        /\ (WantsHalf(args, device) => model.half)
        /\ result.returned => result.status # MsgNotLoaded

\* C10 witness: a request has been served.
C10_Witness ==
    /\ pc = "serving"
    /\ result.returned
    /\ WantsHalf(args, device)

====
